---------------------------- MODULE Spec2Model ----------------------------
(***************************************************************************)
(* A model of the GPSL evaluator (src/src/vm/gpsl.rs): the frame stack    *)
(* GPSL.blocks, the function table, the external function registry and    *)
(* the recursive tree walker GPSL::evaluate, unfolded into a machine with *)
(* an explicit stack of pending evaluate() activations (kont).  One       *)
(* action covers the code executed between two nested calls of evaluate   *)
(* (or one invocation of an external handler).                            *)
(***************************************************************************)
EXTENDS Integers, Sequences, FiniteSets, TLC

VARIABLES functions, global_variables, external_func, blocks,
          ctrl, kont, result, runs, calls, log, entry_blocks, run_name,
          fresh

vars == <<functions, global_variables, external_func, blocks,
          ctrl, kont, result, runs, calls, log, entry_blocks, run_name,
          fresh>>

(***************************************************************************)
(* Bounds of the model.                                                    *)
(***************************************************************************)
MaxRuns == 2
MaxHandlers == 2

(***************************************************************************)
(* Option<T> and Result<T, String>.                                        *)
(***************************************************************************)
Nothing == [opt |-> FALSE]
Some(x) == [opt |-> TRUE, v |-> x]
Ok(x) == [ok |-> TRUE, val |-> x]
Err(e) == [ok |-> FALSE, err |-> e]

Range(s) == {s[i] : i \in DOMAIN s}

(***************************************************************************)
(* Variable (crate::variable), as the evaluator builds and matches it.     *)
(***************************************************************************)
VNumber(n) == [tag |-> "Number", value |-> n]
VText(s) == [tag |-> "Text", value |-> s]
VReturn(v) == [tag |-> "Return", value |-> v]
VNone == [tag |-> "None"]

\* usize arithmetic is modelled on UsizeBits bits.
UsizeBits == 8
UsizeModulus == 2 ^ UsizeBits
MaxLoop == 3

(***************************************************************************)
(* Permission (crate::permission).                                         *)
(***************************************************************************)
Administrator == "Permission::Administrator"
StdIo == "Permission::StdIo"

from_string(p) == IF p = "Administrator" THEN Administrator ELSE StdIo

RECURSIVE map_from_string(_)
map_from_string(ps) ==
    IF ps = <<>> THEN <<>>
    ELSE <<from_string(Head(ps))>> \o map_from_string(Tail(ps))

(***************************************************************************)
(* Node (crate::node): the variants the evaluator matches on.              *)
(***************************************************************************)
Call(name, args) == [kind |-> "Call", name |-> name, args |-> args]
Text(value) == [kind |-> "Text", value |-> value]
Number(value) == [kind |-> "Number", value |-> value]
Operator(k, lhs, rhs) == [kind |-> "Operator", op |-> k, lhs |-> lhs, rhs |-> rhs]
Lvar(value) == [kind |-> "Lvar", value |-> value]
Return(lhs) == [kind |-> "Return", lhs |-> lhs]
If(condition, stmt, else_stmt) ==
    [kind |-> "If", condition |-> condition, stmt |-> stmt, else_stmt |-> else_stmt]
While(condition, stmt) == [kind |-> "While", condition |-> condition, stmt |-> stmt]
For(init, condition, update, stmt) ==
    [kind |-> "For", init |-> init, condition |-> condition,
     update |-> update, stmt |-> stmt]
Block(stmts, permission) == [kind |-> "Block", stmts |-> stmts, permission |-> permission]
Define(name, var_type) == [kind |-> "Define", name |-> name, var_type |-> var_type]
Permission(accept, reject) == [kind |-> "Permission", accept |-> accept, reject |-> reject]
Function(name, body) == [kind |-> "Function", name |-> name, body |-> body]
NodeNone == [kind |-> "None"]

(***************************************************************************)
(* Block, LocalVariable, VariableStatus.                                   *)
(***************************************************************************)
VariableStatus_default == [initialized |-> FALSE]
LocalVariable(name, value, status) == [name |-> name, value |-> value, status |-> status]
NewBlock(accept, reject, is_split) ==
    [accept |-> accept, reject |-> reject, variables |-> <<>>, is_split |-> is_split]

\* VecDeque: the front of the deque is index 1.
push_front(bs, b) == <<b>> \o bs
pop_front(bs) == IF bs = <<>> THEN bs ELSE Tail(bs)

(***************************************************************************)
(* get_local_var_mut / get_local_var: scan from the front, stop after the  *)
(* first frame with is_split.  scan_* gives the index found, 0 for None.   *)
(***************************************************************************)
RECURSIVE scan_mut(_, _, _)
scan_mut(bs, name, x) ==
    IF x > Len(bs) THEN 0
    ELSE IF name \in DOMAIN bs[x].variables THEN x
    ELSE IF bs[x].is_split THEN 0
    ELSE scan_mut(bs, name, x + 1)

get_local_var_mut(bs, name) == scan_mut(bs, name, 1)

\* The scan without the break at a call boundary.
RECURSIVE scan_through_split(_, _, _)
scan_through_split(bs, name, x) ==
    IF x > Len(bs) THEN 0
    ELSE IF name \in DOMAIN bs[x].variables THEN x
    ELSE scan_through_split(bs, name, x + 1)

RECURSIVE scan(_, _, _)
scan(bs, name, x) ==
    IF x > Len(bs) THEN 0
    ELSE IF name \in DOMAIN bs[x].variables THEN x
    ELSE IF bs[x].is_split THEN 0
    ELSE scan(bs, name, x + 1)

get_local_var(bs, name) ==
    LET x == scan(bs, name, 1)
    IN  IF x = 0 THEN Nothing ELSE Some(bs[x].variables[name])

extract_number(v) ==
    IF v.tag = "Number" THEN Ok(v.value) ELSE Err("Not a number")

(***************************************************************************)
(* ExternalFuncStatus / ExternalFuncReturn and the host's handlers.  A     *)
(* handler is a host callback; the model draws it from a small family,     *)
(* each member answering for the one name it serves.                       *)
(***************************************************************************)
ExternalFuncStatus == {"SUCCESS", "NOTFOUND", "ERROR", "REJECTED"}
ExternalFuncReturn(status, value) == [status |-> status, value |-> value]

ServedName == "ext"
HandlerBehaviours ==
    {"success_unit", "success_value", "not_found", "error", "rejected", "stdio_guard"}

\* func(name, args, accept, reject)
call_handler(func, name, args, accept, reject) ==
    IF name # ServedName \/ func = "not_found"
    THEN ExternalFuncReturn("NOTFOUND", Nothing)
    ELSE IF func = "success_unit" THEN ExternalFuncReturn("SUCCESS", Nothing)
    ELSE IF func = "success_value" THEN ExternalFuncReturn("SUCCESS", Some(VNumber(7)))
    ELSE IF func = "error" THEN ExternalFuncReturn("ERROR", Nothing)
    ELSE IF func = "rejected" THEN ExternalFuncReturn("REJECTED", Nothing)
    ELSE IF StdIo \in Range(accept) /\ StdIo \notin Range(reject)
         THEN ExternalFuncReturn("SUCCESS", Some(VNumber(Len(args))))
         ELSE ExternalFuncReturn("REJECTED", Nothing)

(***************************************************************************)
(* Control states of the machine and the pending activations of evaluate.  *)
(* ctrl is the node evaluate was just called on (eval), the result it just *)
(* returned (ret), the position of the handler loop (probe), or a panic of *)
(* an unwrap, an expect, a HashMap index or a checked usize operation;     *)
(* kont holds, innermost first, the activations waiting for a nested       *)
(* evaluate, each with the locals it needs to go on.  The fields entry     *)
(* (blocks when the Block or Call was entered) and defined (the names      *)
(* Defined in it so far) of an activation, and the variables runs, calls,  *)
(* log, entry_blocks and run_name (the function_name of the last run), are *)
(* history: no action reads them.  So is fresh: the function_name, the     *)
(* result and the log of the first run, the one made on the runtime as     *)
(* constructed, once that run has returned.                                *)
(***************************************************************************)
Idle == [op |-> "idle"]
Eval(n) == [op |-> "eval", node |-> n]
Ret(r) == [op |-> "ret", res |-> r]
Panic(m) == [op |-> "panic", msg |-> m]
Probe(name, args_value, f, i, c) ==
    [op |-> "probe", name |-> name, args_value |-> args_value, f |-> f, i |-> i,
     call |-> c]

NoResult == [pending |-> TRUE]

IsReturn(r) == r.ok /\ r.val.opt /\ r.val.v.tag = "Return"
IsTrue(cond) == cond.tag = "Number" /\ cond.value = 1

ScopeKinds == {"RunBody", "CallBody", "BlockStmt"}

\* History: the names Defined so far directly in the innermost open scope.
RECURSIVE mark_defined(_, _)
mark_defined(k, name) ==
    IF k = <<>> THEN k
    ELSE IF Head(k).k \in ScopeKinds
         THEN <<[Head(k) EXCEPT !.defined = @ \cup {name}]>> \o Tail(k)
         ELSE <<Head(k)>> \o mark_defined(Tail(k), name)

Step(c, k, b) ==
    /\ ctrl' = c
    /\ kont' = k
    /\ blocks' = b
    /\ UNCHANGED <<functions, global_variables, external_func, result, runs,
                   calls, log, entry_blocks, run_name, fresh>>

\* The GPSL fields no step of evaluate writes.
Static ==
    UNCHANGED <<functions, global_variables, external_func, result, runs, entry_blocks,
                run_name, fresh>>

Evaluating(kind) == ctrl.op = "eval" /\ ctrl.node.kind = kind
Returning(k) == ctrl.op = "ret" /\ kont # <<>> /\ Head(kont).k = k

(***************************************************************************)
(* evaluate: literals, Lvar, Define, Return.                               *)
(***************************************************************************)
Evaluate_Text ==
    /\ Evaluating("Text")
    /\ Step(Ret(Ok(Some(VText(ctrl.node.value)))), kont, blocks)

Evaluate_Number ==
    /\ Evaluating("Number")
    /\ Step(Ret(Ok(Some(VNumber(ctrl.node.value)))), kont, blocks)

Evaluate_Lvar ==
    /\ Evaluating("Lvar")
    /\ LET var == get_local_var(blocks, ctrl.node.value)
       IN  IF var.opt
           THEN Step(Ret(Ok(Some(var.v.value))), kont, blocks)
           ELSE Step(Panic("unwrap on None"), kont, blocks)

define_value_any(var_type) ==
    IF var_type = "num" THEN Some(VNumber(0)) ELSE Some(VText(""))
define_value(var_type) ==
    IF var_type = "num" THEN Some(VNumber(0))
    ELSE IF var_type = "String" THEN Some(VText(""))
    ELSE Nothing

Evaluate_Define ==
    /\ Evaluating("Define")
    /\ LET name == ctrl.node.name
           value == define_value(ctrl.node.var_type)
       IN  IF ~value.opt
           THEN Step(Ret(Err("unknown type")), kont, blocks)
           ELSE IF blocks = <<>>
           THEN Step(Panic("unwrap on None"), kont, blocks)
           ELSE Step(Ret(Ok(Nothing)), mark_defined(kont, name),
                     [blocks EXCEPT ![1].variables =
                         (name :> LocalVariable(name, value.v, VariableStatus_default)) @@ @])

Evaluate_Return ==
    /\ Evaluating("Return")
    /\ Step(Eval(ctrl.node.lhs), <<[k |-> "Return"]>> \o kont, blocks)

Ret_Return ==
    /\ Returning("Return")
    /\ LET res == ctrl.res
       IN  IF res.ok /\ res.val.opt
           THEN Step(Ret(Ok(Some(VReturn(res.val.v)))), Tail(kont), blocks)
           ELSE Step(Ret(Err("Cannot evaluate LHS.")), Tail(kont), blocks)

Evaluate_Other ==
    /\ ctrl.op = "eval"
    /\ ctrl.node.kind \in {"Function", "Permission", "None"}
    /\ Step(Ret(Ok(Nothing)), kont, blocks)

(***************************************************************************)
(* evaluate: Operator.  ASSIGN evaluates rhs and stores through            *)
(* get_local_var_mut; the other kinds evaluate lhs, then rhs, then match.  *)
(***************************************************************************)
Evaluate_Operator ==
    /\ Evaluating("Operator")
    /\ IF ctrl.node.op = "ASSIGN"
       THEN Step(Eval(ctrl.node.rhs), <<[k |-> "Assign", lhs |-> ctrl.node.lhs]>> \o kont, blocks)
       ELSE Step(Eval(ctrl.node.lhs), <<[k |-> "OpLhs", node |-> ctrl.node]>> \o kont, blocks)

Ret_Assign ==
    /\ Returning("Assign")
    /\ LET rhs == ctrl.res
           lhs == Head(kont).lhs
       IN  IF rhs.ok /\ rhs.val.opt /\ lhs.kind = "Lvar"
           THEN LET x == get_local_var_mut(blocks, lhs.value)
                IN  IF x = 0
                    THEN Step(Panic("unwrap on None"), Tail(kont), blocks)
                    ELSE Step(Ret(Ok(Nothing)), Tail(kont),
                              [blocks EXCEPT ![x].variables[lhs.value] =
                                  [@ EXCEPT !.value = rhs.val.v,
                                            !.status = [initialized |-> TRUE]]])
           ELSE Step(Ret(Ok(Nothing)), Tail(kont), blocks)

Ret_OpLhs ==
    /\ Returning("OpLhs")
    /\ IF ~ctrl.res.ok
       THEN Step(Panic("Cannot evaluate lhs."), Tail(kont), blocks)
       ELSE Step(Eval(Head(kont).node.rhs),
                 <<[k |-> "OpRhs", node |-> Head(kont).node, lhs |-> ctrl.res.val]>>
                     \o Tail(kont), blocks)

RetNumber(n) == Ret(Ok(Some(VNumber(n))))
RetBool(b) == RetNumber(IF b THEN 1 ELSE 0)

\* usize `+`, `-`, `*`, `/`: an overflow panics in a build with overflow
\* checks and wraps in a build without; a division by zero always panics.
usize_op(kind, lhs, rhs) ==
    LET exact == CASE kind = "ADD" -> lhs + rhs
                   [] kind = "SUB" -> lhs - rhs
                   [] kind = "MUL" -> lhs * rhs
                   [] OTHER -> 0
    IN  IF kind = "DIV"
        THEN IF rhs = 0 THEN {Panic("attempt to divide by zero")}
                        ELSE {RetNumber(lhs \div rhs)}
        ELSE IF exact >= 0 /\ exact < UsizeModulus
             THEN {RetNumber(exact)}
             ELSE {Panic("arithmetic overflow"),
                   RetNumber((exact + UsizeModulus) % UsizeModulus)}

variable_eq(a, b) == a.tag = b.tag /\ (a.tag = "None" \/ a.value = b.value)

\* The match on kind at lines 193-320; the set of outcomes of the arm.
binary_op(kind, lhs, rhs) ==
    IF kind \in {"ADD", "DIV", "MUL", "SUB", "LT", "LE"}
    THEN LET l == extract_number(lhs)
             r == extract_number(rhs)
         IN  IF ~l.ok THEN {Ret(Err(l.err))}
             ELSE IF ~r.ok THEN {Ret(Err(r.err))}
             ELSE IF kind = "LT" THEN {RetBool(l.val < r.val)}
             ELSE IF kind = "LE" THEN {RetBool(l.val <= r.val)}
             ELSE usize_op(kind, l.val, r.val)
    ELSE IF kind = "EQ" THEN {RetBool(variable_eq(lhs, rhs))}
    ELSE IF kind = "NE" THEN {RetBool(~variable_eq(lhs, rhs))}
    ELSE {Ret(Ok(Nothing))}

Ret_OpRhs ==
    /\ Returning("OpRhs")
    /\ LET lhs == Head(kont).lhs
           rhs == ctrl.res
       IN  IF ~rhs.ok
           THEN Step(Panic("Cannot evaluate rhs."), Tail(kont), blocks)
           ELSE IF ~lhs.opt
           THEN Step(Ret(Err("LHS Variable is null.")), Tail(kont), blocks)
           ELSE IF ~rhs.val.opt
           THEN Step(Ret(Err("RHS Variable is null.")), Tail(kont), blocks)
           ELSE \E c \in binary_op(Head(kont).node.op, lhs.v, rhs.val.v) :
                    Step(c, Tail(kont), blocks)

(***************************************************************************)
(* evaluate: If, While, For.                                               *)
(***************************************************************************)
Evaluate_If ==
    /\ Evaluating("If")
    /\ Step(Eval(ctrl.node.condition), <<[k |-> "IfCond", node |-> ctrl.node]>> \o kont, blocks)

Ret_IfCond ==
    /\ Returning("IfCond")
    /\ LET n == Head(kont).node
           condition == ctrl.res
       IN  IF condition.ok /\ condition.val.opt
           THEN IF IsTrue(condition.val.v)
                THEN Step(Eval(n.stmt), <<[k |-> "IfBranch"]>> \o Tail(kont), blocks)
                ELSE IF n.else_stmt.opt
                THEN Step(Eval(n.else_stmt.v), <<[k |-> "IfBranch"]>> \o Tail(kont), blocks)
                ELSE Step(Ret(Ok(Nothing)), Tail(kont), blocks)
           ELSE Step(Ret(Ok(Nothing)), Tail(kont), blocks)

Ret_IfBranch ==
    /\ Returning("IfBranch")
    /\ IF IsReturn(ctrl.res)
       THEN Step(Ret(ctrl.res), Tail(kont), blocks)
       ELSE Step(Ret(Ok(Nothing)), Tail(kont), blocks)

\* `if let Some(condition) = ...? { condition } else { Number 0 }`
cond_value(res) == IF res.val.opt THEN res.val.v ELSE VNumber(0)

Evaluate_While ==
    /\ Evaluating("While")
    /\ Step(Eval(ctrl.node.condition), <<[k |-> "WhileCond", node |-> ctrl.node]>> \o kont, blocks)

Ret_WhileCond ==
    /\ Returning("WhileCond")
    /\ LET n == Head(kont).node
       IN  IF ~ctrl.res.ok
           THEN Step(Ret(ctrl.res), Tail(kont), blocks)
           ELSE IF IsTrue(cond_value(ctrl.res))
           THEN Step(Eval(n.stmt), <<[k |-> "WhileBody", node |-> n]>> \o Tail(kont), blocks)
           ELSE Step(Ret(Ok(Nothing)), Tail(kont), blocks)

Ret_WhileBody ==
    /\ Returning("WhileBody")
    /\ LET n == Head(kont).node
       IN  IF ~ctrl.res.ok
           THEN Step(Ret(ctrl.res), Tail(kont), blocks)
           ELSE Step(Eval(n.condition), <<[k |-> "WhileCond", node |-> n]>> \o Tail(kont), blocks)

\* The computation of cond at lines 413-428 and 441-456, followed by the
\* loop test at line 430 when there is no condition to evaluate.
for_condition_skipped(n, k) ==
    Step(Eval(n.stmt), <<[k |-> "ForBody", node |-> n]>> \o k, blocks)
for_condition(n, k) ==
    IF n.condition.opt
    THEN Step(Eval(n.condition.v), <<[k |-> "ForCond", node |-> n]>> \o k, blocks)
    ELSE Step(Eval(n.stmt), <<[k |-> "ForBody", node |-> n]>> \o k, blocks)

Evaluate_For ==
    /\ Evaluating("For")
    /\ IF ctrl.node.init.opt
       THEN Step(Eval(ctrl.node.init.v), <<[k |-> "ForInit", node |-> ctrl.node]>> \o kont, blocks)
       ELSE for_condition(ctrl.node, kont)

Ret_ForInit ==
    /\ Returning("ForInit")
    /\ IF ~ctrl.res.ok
       THEN Step(Ret(ctrl.res), Tail(kont), blocks)
       ELSE for_condition(Head(kont).node, Tail(kont))

Ret_ForCond ==
    /\ Returning("ForCond")
    /\ LET n == Head(kont).node
       IN  IF ~ctrl.res.ok
           THEN Step(Ret(ctrl.res), Tail(kont), blocks)
           ELSE IF IsTrue(cond_value(ctrl.res))
           THEN Step(Eval(n.stmt), <<[k |-> "ForBody", node |-> n]>> \o Tail(kont), blocks)
           ELSE Step(Ret(Ok(Nothing)), Tail(kont), blocks)

Ret_ForBody ==
    /\ Returning("ForBody")
    /\ LET n == Head(kont).node
       IN  IF ~ctrl.res.ok
           THEN Step(Ret(ctrl.res), Tail(kont), blocks)
           ELSE IF n.update.opt
           THEN Step(Eval(n.update.v), <<[k |-> "ForUpdate", node |-> n]>> \o Tail(kont), blocks)
           ELSE for_condition(n, Tail(kont))

Ret_ForUpdate ==
    /\ Returning("ForUpdate")
    /\ IF ~ctrl.res.ok
       THEN Step(Ret(ctrl.res), Tail(kont), blocks)
       ELSE for_condition(Head(kont).node, Tail(kont))

(***************************************************************************)
(* evaluate: Block.  The frame is pushed at entry and popped only after    *)
(* the statement loop has run to its end.                                  *)
(***************************************************************************)
\* A Block without annotation starting from empty sets instead of inheriting.
block_pair_empty(front, permission) ==
    IF permission.opt /\ permission.v.kind = "Permission"
    THEN [accept |-> map_from_string(permission.v.accept),
          reject |-> map_from_string(permission.v.reject)]
    ELSE [accept |-> <<>>, reject |-> <<>>]

block_pair(front, permission) ==
    IF permission.opt /\ permission.v.kind = "Permission"
    THEN [accept |-> map_from_string(permission.v.accept),
          reject |-> map_from_string(permission.v.reject)]
    ELSE [accept |-> front.accept, reject |-> front.reject]

Evaluate_Block ==
    /\ Evaluating("Block")
    /\ IF blocks = <<>>
       THEN Step(Panic("unwrap on None"), kont, blocks)
       ELSE LET pair == block_pair(blocks[1], ctrl.node.permission)
                pushed == push_front(blocks, NewBlock(pair.accept, pair.reject, FALSE))
                stmts == ctrl.node.stmts
            IN  IF stmts = <<>>
                THEN Step(Ret(Ok(Nothing)), kont, pop_front(pushed))
                ELSE Step(Eval(stmts[1]),
                          <<[k |-> "BlockStmt", node |-> ctrl.node, idx |-> 1,
                             entry |-> blocks, defined |-> {}]>> \o kont,
                          pushed)

\* What the loop at lines 477-487 and the code after it do with the result
\* of one statement: leave with it, or go on (pop first when it was the last).
block_leaves_on_error(ret) == ~ret.ok
block_leaves(ret) == ~ret.ok \/ IsReturn(ret)
block_exit_twice(bs) == pop_front(pop_front(bs))
block_exit(bs) == pop_front(bs)

Ret_BlockStmt ==
    /\ Returning("BlockStmt")
    /\ LET fr == Head(kont)
           stmts == fr.node.stmts
       IN  IF block_leaves(ctrl.res)
           THEN Step(Ret(ctrl.res), Tail(kont), blocks)
           ELSE IF fr.idx < Len(stmts)
           THEN Step(Eval(stmts[fr.idx + 1]),
                     <<[fr EXCEPT !.idx = @ + 1]>> \o Tail(kont), blocks)
           ELSE Step(Ret(Ok(Nothing)), Tail(kont), block_exit(blocks))

(***************************************************************************)
(* evaluate: Call.  Arguments, then the function table, then the external  *)
(* handlers in registration order.                                         *)
(***************************************************************************)
contains_key(fs, name) == fs.opt /\ name \in DOMAIN fs.v

\* The frame pushed at lines 118-123 from the clone of the front frame.
call_frame(block) ==
    [accept |-> block.accept, reject |-> block.reject, variables |-> <<>>,
     is_split |-> TRUE]

\* The function table taken out of the runtime instead of cloned.
dispatch_taking(function_name, f, args_value, k) ==
    /\ functions' = Nothing
    /\ UNCHANGED <<global_variables, external_func, result, runs, entry_blocks, run_name,
                   fresh>>
    /\ IF contains_key(functions, function_name)
       THEN LET fn == functions.v[function_name]
            IN  /\ UNCHANGED <<calls, log>>
                /\ IF fn.kind # "Function" \/ fn.body = <<>>
                   THEN ctrl' = Ret(Ok(Nothing)) /\ kont' = k /\ blocks' = blocks
                   ELSE IF blocks = <<>>
                   THEN ctrl' = Panic("unwrap on None") /\ kont' = k /\ blocks' = blocks
                   ELSE /\ ctrl' = Eval(fn.body[1])
                        /\ kont' = <<[k |-> "CallBody", name |-> function_name,
                                      body |-> fn.body, idx |-> 1, entry |-> blocks,
                                      defined |-> {}]>> \o k
                        /\ blocks' = push_front(blocks, call_frame(blocks[1]))
       ELSE /\ ctrl' = Probe(function_name, args_value, f, 1, calls + 1)
            /\ calls' = calls + 1
            /\ kont' = k
            /\ UNCHANGED <<blocks, log>>

\* Lines 107-145: after the arguments have been evaluated.
dispatch(function_name, f, args_value, k) ==
    IF contains_key(functions, function_name)
    THEN LET fn == functions.v[function_name]
         IN  IF fn.kind # "Function" \/ fn.body = <<>>
             THEN Step(Ret(Ok(Nothing)), k, blocks)
             ELSE IF blocks = <<>>
             THEN Step(Panic("unwrap on None"), k, blocks)
             ELSE Step(Eval(fn.body[1]),
                       <<[k |-> "CallBody", name |-> function_name, body |-> fn.body,
                          idx |-> 1, entry |-> blocks, defined |-> {}]>> \o k,
                       push_front(blocks, call_frame(blocks[1])))
    ELSE /\ ctrl' = Probe(function_name, args_value, f, 1, calls + 1)
         /\ calls' = calls + 1
         /\ kont' = k
         /\ UNCHANGED <<blocks, log>>
         /\ Static

Evaluate_Call ==
    /\ Evaluating("Call")
    /\ LET f == external_func
           args == ctrl.node.args
       IN  IF args = <<>>
           THEN dispatch(ctrl.node.name, f, <<>>, kont)
           ELSE Step(Eval(args[1]),
                     <<[k |-> "CallArgs", name |-> ctrl.node.name, f |-> f,
                        args |-> args, idx |-> 1, args_value |-> <<>>]>> \o kont,
                     blocks)

\* The argument values collected in reverse.
Ret_CallArgs_reversed ==
    /\ Returning("CallArgs")
    /\ LET fr == Head(kont)
           args_value == IF ctrl.res.ok /\ ctrl.res.val.opt
                         THEN <<ctrl.res.val.v>> \o fr.args_value
                         ELSE fr.args_value
       IN  IF ~ctrl.res.ok
           THEN Step(Panic("Cannot evaluate"), Tail(kont), blocks)
           ELSE IF fr.idx < Len(fr.args)
           THEN Step(Eval(fr.args[fr.idx + 1]),
                     <<[fr EXCEPT !.idx = @ + 1, !.args_value = args_value]>>
                         \o Tail(kont),
                     blocks)
           ELSE dispatch(fr.name, fr.f, args_value, Tail(kont))

Ret_CallArgs ==
    /\ Returning("CallArgs")
    /\ LET fr == Head(kont)
           args_value == IF ctrl.res.ok /\ ctrl.res.val.opt
                         THEN Append(fr.args_value, ctrl.res.val.v)
                         ELSE fr.args_value
       IN  IF ~ctrl.res.ok
           THEN Step(Panic("Cannot evaluate"), Tail(kont), blocks)
           ELSE IF fr.idx < Len(fr.args)
           THEN Step(Eval(fr.args[fr.idx + 1]),
                     <<[fr EXCEPT !.idx = @ + 1, !.args_value = args_value]>>
                         \o Tail(kont),
                     blocks)
           ELSE dispatch(fr.name, fr.f, args_value, Tail(kont))

Ret_CallBody ==
    /\ Returning("CallBody")
    /\ LET fr == Head(kont)
           res == ctrl.res
           popped == pop_front(blocks)
       IN  IF IsReturn(res)
           THEN Step(Ret(Ok(Some(res.val.v.value))), Tail(kont), blocks)
           ELSE IF ~res.ok
           THEN Step(Ret(res), Tail(kont), blocks)
           ELSE IF fr.idx = Len(fr.body)
           THEN Step(Ret(Ok(Nothing)), Tail(kont), popped)
           ELSE IF popped = <<>>
           THEN Step(Panic("unwrap on None"), Tail(kont), popped)
           ELSE Step(Eval(fr.body[fr.idx + 1]),
                     <<[fr EXCEPT !.idx = @ + 1]>> \o Tail(kont),
                     push_front(popped, call_frame(popped[1])))

\* The loop with the test for SUCCESS inverted.
probe_next_inverted(res, c) ==
    IF res.status # "SUCCESS" THEN Ret(Ok(res.value))
    ELSE IF res.status = "REJECTED" THEN Ret(Err("External function rejected."))
    ELSE [c EXCEPT !.i = @ + 1]

\* Lines 150-155: what the loop does with one handler's answer.
probe_next(res, c) ==
    IF res.status = "SUCCESS" THEN Ret(Ok(res.value))
    ELSE IF res.status = "REJECTED" THEN Ret(Err("External function rejected."))
    ELSE [c EXCEPT !.i = @ + 1]

\* The fall-through of the loop yielding no value instead of an error.
probe_exhausted_unit == Ret(Ok(Nothing))

\* Line 158: no handler ended the loop.
probe_exhausted == Ret(Err("Function not found"))

Probe_Handler ==
    /\ ctrl.op = "probe"
    /\ ctrl.i <= Len(ctrl.f)
    /\ IF blocks = <<>>
       THEN Step(Panic("unwrap on None"), kont, blocks)
       ELSE LET block == blocks[1]
                res == call_handler(ctrl.f[ctrl.i], ctrl.name, ctrl.args_value,
                                    block.accept, block.reject)
            IN  /\ log' = Append(log, [call |-> ctrl.call, func |-> ctrl.i,
                                       name |-> ctrl.name, args |-> ctrl.args_value,
                                       accept |-> block.accept, reject |-> block.reject,
                                       status |-> res.status, value |-> res.value])
                /\ ctrl' = probe_next(res, ctrl)
                /\ UNCHANGED <<kont, blocks, calls>>
                /\ Static

Probe_Exhausted ==
    /\ ctrl.op = "probe"
    /\ ctrl.i > Len(ctrl.f)
    /\ Step(probe_exhausted, kont, blocks)

(***************************************************************************)
(* run.                                                                    *)
(***************************************************************************)
\* The frame of a run cloned from the frame in front, as the frame of a Call is.
run_frame_inherited ==
    IF blocks = <<>>
    THEN [accept |-> <<Administrator, StdIo>>, reject |-> <<>>,
          variables |-> <<>>, is_split |-> TRUE]
    ELSE [accept |-> blocks[1].accept, reject |-> blocks[1].reject,
          variables |-> <<>>, is_split |-> TRUE]

run_frame == [accept |-> <<Administrator, StdIo>>, reject |-> <<>>,
              variables |-> <<>>, is_split |-> TRUE]

RunNames == {"main", "g", "doesNotExist"}

Run(function_name) ==
    /\ ctrl.op = "idle"
    /\ runs < MaxRuns
    /\ runs' = runs + 1
    /\ entry_blocks' = blocks
    /\ run_name' = function_name
    /\ log' = <<>>
    /\ calls' = 0
    /\ blocks' = push_front(blocks, run_frame)
    /\ UNCHANGED <<functions, global_variables, external_func>>
    /\ IF ~functions.opt
       THEN ctrl' = Idle /\ kont' = <<>> /\ result' = Ok(VNone)
       ELSE IF function_name \notin DOMAIN functions.v
       THEN ctrl' = Panic("key not found") /\ kont' = <<>> /\ result' = NoResult
       ELSE LET fn == functions.v[function_name]
            IN  IF fn.kind # "Function" \/ fn.body = <<>>
                THEN ctrl' = Idle /\ kont' = <<>> /\ result' = Ok(VNone)
                ELSE /\ ctrl' = Eval(fn.body[1])
                     /\ kont' = <<[k |-> "RunBody", body |-> fn.body, idx |-> 1,
                                   defined |-> {}]>>
                     /\ result' = NoResult
    /\ fresh' = IF runs = 0 /\ ctrl'.op = "idle"
                THEN [name |-> function_name, result |-> result', log |-> log']
                ELSE fresh

Ret_RunBody ==
    /\ Returning("RunBody")
    /\ UNCHANGED <<functions, global_variables, external_func, blocks, runs, calls,
                   log, entry_blocks, run_name>>
    /\ LET fr == Head(kont)
           res == ctrl.res
       IN  IF IsReturn(res)
           THEN ctrl' = Idle /\ kont' = <<>> /\ result' = Ok(res.val.v.value)
           ELSE IF ~res.ok
           THEN ctrl' = Idle /\ kont' = <<>> /\ result' = res
           ELSE IF fr.idx = Len(fr.body)
           THEN ctrl' = Idle /\ kont' = <<>> /\ result' = Ok(VNone)
           ELSE /\ ctrl' = Eval(fr.body[fr.idx + 1])
                /\ kont' = <<[fr EXCEPT !.idx = @ + 1]>>
                /\ result' = result
    /\ fresh' = IF runs = 1 /\ ctrl'.op = "idle"
                THEN [name |-> run_name, result |-> result', log |-> log]
                ELSE fresh

(***************************************************************************)
(* Programs: the function tables the runtime is constructed with.          *)
(***************************************************************************)
Assign(name, rhs) == Operator("ASSIGN", Lvar(name), rhs)
Table(main, g) ==
    Some([n \in {"main", "g"} |->
            IF n = "main" THEN Function("main", main) ELSE Function("g", g)])

NarrowPermission == Permission(<<"StdIo">>, <<"Administrator">>)
WidePermission == Permission(<<"Administrator", "StdIo">>, <<>>)

\* A caller's local across a Call that returns a value.
ProgCallerLocal ==
    Table(<<Define("x", "num"), Assign("x", Number(1)), Call("g", <<>>),
            Return(Lvar("x"))>>,
          <<Return(Number(2))>>)

\* A Block of the callee that Defines y and returns out of it.
ProgBlockLocal ==
    Table(<<Call("g", <<>>), Return(Lvar("y"))>>,
          <<Block(<<Define("y", "num"), Assign("y", Number(5)), Return(Number(1))>>,
                  Nothing)>>)

\* An annotated Block calling a function whose Block widens the permissions.
ProgPermReturn ==
    Table(<<Block(<<Call("ext", <<Number(1)>>), Call("g", <<>>),
                    Call("ext", <<Number(2)>>)>>, Some(NarrowPermission)),
            Call("ext", <<Number(3)>>)>>,
          <<Block(<<Call("ext", <<Number(4)>>), Return(Number(0))>>,
                  Some(WidePermission))>>)

\* Annotated and plain Blocks that all run to their end.
ProgPermNormal ==
    Table(<<Block(<<Call("ext", <<Number(1)>>),
                    Block(<<Call("ext", <<Number(2)>>)>>, Nothing),
                    Call("g", <<>>)>>, Some(NarrowPermission)),
            Call("ext", <<Number(3)>>)>>,
          <<Call("ext", <<Number(4)>>),
            Block(<<Call("ext", <<Number(5)>>)>>, Some(Permission(<<>>, <<"StdIo">>))),
            Call("ext", <<Number(6)>>)>>)

\* A callee that assigns, and one that reads, a name only its caller Defines.
ProgIsolationAssign ==
    Table(<<Define("x", "num"), Assign("x", Number(1)), Call("g", <<Lvar("x")>>),
            Return(Lvar("x"))>>,
          <<Assign("x", Number(2))>>)

ProgIsolationRead ==
    Table(<<Block(<<Define("x", "num"), Assign("x", Number(1)),
                    Return(Call("g", <<>>))>>, Nothing)>>,
          <<Block(<<Define("z", "num"), Assign("z", Lvar("x")), Return(Lvar("z"))>>,
                  Nothing)>>)

\* A callee that re-Defines the caller's name; nested Blocks of one call.
ProgShadow ==
    Table(<<Define("x", "num"), Assign("x", Number(1)),
            Block(<<Assign("x", Operator("ADD", Lvar("x"), Call("g", <<>>))),
                    Block(<<Define("z", "String"), Assign("z", Text("a")),
                            Assign("x", Operator("MUL", Lvar("x"), Number(2)))>>,
                          Nothing)>>, Nothing),
            Return(Lvar("x"))>>,
          <<Block(<<Define("x", "num"), Assign("x", Number(2)), Return(Lvar("x"))>>,
                  Nothing)>>)

\* External calls whose outcome is stored, tested and returned.
ProgDispatch ==
    Table(<<Define("x", "num"),
            Assign("x", Call("ext", <<Number(1), Text("a")>>)),
            If(Operator("EQ", Lvar("x"), Number(7)),
               Return(Call("nosuch", <<>>)),
               Some(Return(Call("ext", <<>>))))>>,
          <<Call("ext", <<>>), Return(Number(3))>>)

\* A script function that has the name the handlers serve.
ProgPrecedence ==
    Some([n \in {"main", "g", "ext"} |->
            CASE n = "main" -> Function("main", <<Return(Call("ext", <<Number(1)>>))>>)
              [] n = "g" -> Function("g", <<Call("ext", <<>>), Call("nosuch", <<>>)>>)
              [] n = "ext" -> Function("ext", <<Return(Number(9))>>)])

\* Loops, conditions and arithmetic.
ProgControl ==
    Table(<<Define("i", "num"), Define("s", "num"),
            For(Some(Assign("i", Number(0))),
                Some(Operator("LT", Lvar("i"), Number(2))),
                Some(Assign("i", Operator("ADD", Lvar("i"), Number(1)))),
                Block(<<Assign("s", Operator("ADD", Lvar("s"), Lvar("i")))>>, Nothing)),
            While(Operator("EQ", Lvar("s"), Number(1)),
                  Assign("s", Operator("MUL", Lvar("s"), Number(2)))),
            NodeNone,
            If(Operator("LE", Lvar("s"), Number(2)),
               Return(Operator("SUB", Lvar("s"), Number(1))),
               Some(Return(Operator("DIV", Lvar("s"), Number(0)))))>>,
          <<Define("n", "num"), Define("t", "float"),
            If(Operator("NE", Text("a"), Number(1)), NodeNone, Nothing),
            Return(Text("done"))>>)

\* Returns nested in Blocks and If branches, each followed by statements
\* that would assign or reach a handler.
ProgNested ==
    Table(<<Define("x", "num"),
            Block(<<If(Number(1),
                       Block(<<Assign("x", Number(1)), Return(Call("g", <<>>)),
                               Assign("x", Number(2))>>, Nothing),
                       Nothing),
                    Assign("x", Number(3))>>, Nothing),
            Call("ext", <<>>),
            Return(Number(9))>>,
          <<Block(<<Block(<<If(Number(0), Return(Number(1)),
                               Some(Block(<<Return(Number(5))>>, Nothing))),
                            Call("ext", <<>>)>>, Nothing),
                    Call("ext", <<>>)>>, Nothing),
            Return(Number(6))>>)

\* for (i = 0; i < n; i = i + 1) body, the body counting its executions in
\* c: as a Block in main, as a plain statement in g.
ForLoop(n, body) ==
    For(Some(Assign("i", Number(0))),
        Some(Operator("LT", Lvar("i"), Number(n))),
        Some(Assign("i", Operator("ADD", Lvar("i"), Number(1)))),
        body)
CountBody == Assign("c", Operator("ADD", Lvar("c"), Number(1)))
ProgFor(n) ==
    Table(<<Define("i", "num"), Define("c", "num"),
            ForLoop(n, Block(<<CountBody>>, Nothing)), Return(Lvar("c"))>>,
          <<Define("i", "num"), Define("c", "num"),
            ForLoop(n, CountBody), Return(Lvar("c"))>>)

\* Define, assign (directly and from a nested Block), read back: g run
\* directly, and g invoked through the Call in main.
ProgRoundTrip ==
    Table(<<Return(Call("g", <<>>))>>,
          <<Define("x", "num"), Assign("x", Number(7)),
            Block(<<Assign("x", Number(8))>>, Nothing), Return(Lvar("x"))>>)

\* `return a op b` in main; the same through a variable in g.
ArithOperands == {0, 2, 3, 4, 5, 7, UsizeModulus - 1}
ArithKinds == {"ADD", "SUB", "DIV", "MUL"}
ProgArith(kind, a, b) ==
    Table(<<Return(Operator(kind, Number(a), Number(b)))>>,
          <<Define("r", "num"), Assign("r", Number(a)),
            Return(Operator(kind, Lvar("r"), Number(b)))>>)

\* A Return in the body of a While (main) and of a For (g).
ProgLoopReturn ==
    Table(<<Define("i", "num"),
            While(Operator("LT", Lvar("i"), Number(2)),
                  Block(<<Assign("i", Operator("ADD", Lvar("i"), Number(1))),
                          Return(Lvar("i"))>>, Nothing)),
            Return(Number(9))>>,
          <<Define("i", "num"),
            For(Some(Assign("i", Number(0))),
                Some(Operator("LT", Lvar("i"), Number(2))),
                Some(Assign("i", Operator("ADD", Lvar("i"), Number(1)))),
                Return(Lvar("i"))),
            Return(Number(9))>>)

\* A callee whose first statement fails inside two annotated Blocks, the
\* failure being absorbed by an If, and whose second statement calls the host.
ProgCallFrame ==
    Table(<<Return(Call("g", <<>>))>>,
          <<If(Number(1),
               Block(<<Block(<<Call("nosuch", <<>>)>>, Some(NarrowPermission))>>,
                     Some(NarrowPermission)),
               Nothing),
            Return(Call("ext", <<>>))>>)

\* A Text operand of ADD, the sum being the operand of another ADD (main);
\* a Text operand of LT (g).
ProgTypeMismatch ==
    Table(<<Define("x", "num"), Assign("x", Number(2)),
            Return(Operator("ADD", Operator("ADD", Number(1), Text("a")), Lvar("x")))>>,
          <<Return(Operator("LT", Number(1), Text("a")))>>)

\* A Block that Defines and assigns a name of the enclosing frame (main);
\* a second Define of a name in the same frame, then an unknown type (g).
ProgDefine ==
    Table(<<Define("x", "num"), Assign("x", Number(1)),
            Block(<<Define("x", "num"), Assign("x", Number(5)), Define("s", "String")>>,
                  Nothing),
            Return(Lvar("x"))>>,
          <<Define("x", "num"), Assign("x", Number(3)), Define("x", "num"),
            Define("t", "float"), Return(Lvar("x"))>>)

\* EQ and NE on operands of equal and of different tags, and on the absent
\* value of unit().
ProgEquality ==
    Some([n \in {"main", "g", "unit"} |->
            CASE n = "main" ->
                    Function("main",
                        <<Define("r", "num"),
                          Assign("r", Operator("EQ", Text("a"), Text("a"))),
                          Assign("r", Operator("NE", Text("a"), Text("b"))),
                          Assign("r", Operator("EQ", Text("a"), Number(1))),
                          Assign("r", Operator("EQ", Lvar("r"), Number(0))),
                          Return(Operator("EQ", Call("unit", <<>>), Number(1)))>>)
              [] n = "g" ->
                    Function("g", <<Return(Operator("NE", Number(1), Text("a")))>>)
              [] n = "unit" -> Function("unit", <<NodeNone>>)])

\* A host call whose arguments read a local of the caller and call the host.
ProgArgs ==
    Table(<<Define("x", "num"), Assign("x", Number(4)),
            Return(Call("ext", <<Lvar("x"), Call("ext", <<Number(1)>>),
                                 Call("ext", <<Text("s")>>)>>))>>,
          <<Define("x", "num"), Assign("x", Number(4)),
            Return(Call("main", <<Lvar("x"), Call("ext", <<Number(1)>>)>>))>>)

\* No Block is annotated: handlers are reached from nested Blocks of a
\* called function, after a Call has returned, and after a Return.
ProgDefaultPair ==
    Table(<<Block(<<Call("g", <<>>), Call("ext", <<>>)>>, Nothing),
            Return(Call("ext", <<>>))>>,
          <<Block(<<Block(<<Call("ext", <<>>)>>, Nothing)>>, Nothing),
            Block(<<Return(Call("ext", <<>>))>>, Nothing)>>)

\* If, While and For on a condition c; unit() yields no value.
TruthConditions ==
    <<Number(0), Number(1), Number(2), Text("x"), Call("unit", <<>>)>>
ProgTruth(c) ==
    Some([n \in {"main", "g", "unit"} |->
            CASE n = "main" ->
                    Function("main", <<If(c, Return(Number(10)), Some(Return(Number(20)))),
                                       Return(Number(30))>>)
              [] n = "g" ->
                    Function("g", <<While(c, Return(Number(5))),
                                    For(Nothing, Some(c), Nothing, Return(Number(6))),
                                    Return(Number(7))>>)
              [] n = "unit" -> Function("unit", <<NodeNone>>)])

FunctionTables ==
    {ProgCallerLocal, ProgBlockLocal, ProgPermReturn, ProgPermNormal,
     ProgIsolationAssign, ProgIsolationRead, ProgShadow, ProgDispatch,
     ProgPrecedence, ProgControl, ProgNested, ProgCallFrame, ProgArgs,
     ProgDefaultPair, Nothing}

Registries == UNION {[1..n -> HandlerBehaviours] : n \in 0..MaxHandlers}

(***************************************************************************)
(* GPSL::new, and the behaviours of the runtime.                           *)
(***************************************************************************)
Init ==
    /\ \/ functions \in FunctionTables /\ external_func \in Registries
       \* tables that call no host function: the registry is never consulted
       \/ /\ \/ \E i \in DOMAIN TruthConditions : functions = ProgTruth(TruthConditions[i])
             \/ \E n \in 0..MaxLoop : functions = ProgFor(n)
             \/ functions = ProgRoundTrip
             \/ functions = ProgLoopReturn
             \/ functions = ProgTypeMismatch
             \/ functions = ProgDefine
             \/ functions = ProgEquality
             \/ \E kind \in ArithKinds, a, b \in ArithOperands :
                    functions = ProgArith(kind, a, b)
          /\ external_func = <<>>
    /\ global_variables = <<>>
    /\ blocks = <<>>
    /\ ctrl = Idle
    /\ kont = <<>>
    /\ result = NoResult
    /\ runs = 0
    /\ calls = 0
    /\ log = <<>>
    /\ entry_blocks = <<>>
    /\ run_name = ""
    /\ fresh = [name |-> "", result |-> NoResult, log |-> <<>>]

Next ==
    \/ \E function_name \in RunNames : Run(function_name)
    \/ Ret_RunBody
    \/ Evaluate_Call
    \/ Ret_CallArgs
    \/ Ret_CallBody
    \/ Probe_Handler
    \/ Probe_Exhausted
    \/ Evaluate_Text
    \/ Evaluate_Number
    \/ Evaluate_Operator
    \/ Ret_Assign
    \/ Ret_OpLhs
    \/ Ret_OpRhs
    \/ Evaluate_Lvar
    \/ Evaluate_Return
    \/ Ret_Return
    \/ Evaluate_If
    \/ Ret_IfCond
    \/ Ret_IfBranch
    \/ Evaluate_While
    \/ Ret_WhileCond
    \/ Ret_WhileBody
    \/ Evaluate_For
    \/ Ret_ForInit
    \/ Ret_ForCond
    \/ Ret_ForBody
    \/ Ret_ForUpdate
    \/ Evaluate_Block
    \/ Ret_BlockStmt
    \/ Evaluate_Define
    \/ Evaluate_Other

Spec == Init /\ [][Next]_vars

\* evaluate and run are sequential code: a started step always completes.
FairSpec == Spec /\ WF_vars(Next)

(***************************************************************************)
(* Vocabulary of the properties.                                           *)
(***************************************************************************)
Pair(b) == [accept |-> b.accept, reject |-> b.reject]

\* The innermost open scope (Block, call or run) of the code being evaluated.
RECURSIVE scope(_)
scope(k) ==
    IF k = <<>> THEN [k |-> "none"]
    ELSE IF Head(k).k \in ScopeKinds THEN Head(k)
    ELSE scope(Tail(k))

\* The function invocation the code being evaluated belongs to.
RECURSIVE invocation(_)
invocation(k) ==
    IF k = <<>> THEN [k |-> "none"]
    ELSE IF Head(k).k \in {"CallBody", "RunBody"} THEN Head(k)
    ELSE invocation(Tail(k))

\* The names Defined in the open scopes of the current invocation.
RECURSIVE visible_defined(_)
visible_defined(k) ==
    IF k = <<>> THEN {}
    ELSE IF Head(k).k \in {"CallBody", "RunBody"} THEN Head(k).defined
    ELSE IF Head(k).k = "BlockStmt" THEN Head(k).defined \cup visible_defined(Tail(k))
    ELSE visible_defined(Tail(k))

\* The evaluator is about to read, or to assign, a variable.
ReadPoint == ctrl.op = "eval" /\ ctrl.node.kind = "Lvar"
AssignPoint ==
    /\ Returning("Assign")
    /\ ctrl.res.ok /\ ctrl.res.val.opt
    /\ Head(kont).lhs.kind = "Lvar"
ReadName == ctrl.node.value
AssignName == Head(kont).lhs.value

\* Frames pushed since the call cb was dispatched, and the caller's frames.
CalleeDepth(cb) == Len(blocks) - Len(cb.entry)
DefinedInCallee(cb, name) ==
    \E i \in 1..CalleeDepth(cb) : name \in DOMAIN blocks[i].variables
DefinedInCaller(cb, name) ==
    \E i \in 1..Len(cb.entry) : name \in DOMAIN cb.entry[i].variables

\* A handler is about to be invoked; a handler has just been invoked.
ProbePoint == ctrl.op = "probe" /\ ctrl.i <= Len(ctrl.f)
Invoked == Len(log') = Len(log) + 1
LastEntry == log'[Len(log')]
RunReturned == ctrl.op = "idle" /\ runs > 0

(***************************************************************************)
(* C1: whatever the outcome of run(f), the frame stack after run returns   *)
(* is the frame stack before run was called.                               *)
(***************************************************************************)
C1_RunRestoresStack == RunReturned => blocks = entry_blocks

(***************************************************************************)
(* C2: an external handler called directly inside an annotated Block gets  *)
(* exactly the annotated pair, one called directly inside a Block without  *)
(* annotation gets the pair of the enclosing frame, and when a Block exits *)
(* by any path the active pair is again the pair from before its entry.    *)
(***************************************************************************)
C2_Inside ==
    (ProbePoint /\ scope(kont).k = "BlockStmt") =>
        Pair(blocks[1]) = block_pair(scope(kont).entry[1], scope(kont).node.permission)
C2_Exit ==
    (Returning("BlockStmt") /\ kont' = Tail(kont)) =>
        Pair(blocks'[1]) = Pair(Head(kont).entry[1])
C2_PermissionScoped == []C2_Inside /\ [][C2_Exit]_vars

(***************************************************************************)
(* C3: every handler invoked while a called script function executes gets  *)
(* an accept set that is a subset of the accept set active in the caller   *)
(* at the instant of the call.                                             *)
(***************************************************************************)
C3_CalleeNeverWidens ==
    ProbePoint =>
        \A j \in 1..Len(kont) :
            kont[j].k = "CallBody" =>
                Range(blocks[1].accept) \subseteq Range(kont[j].entry[1].accept)

(***************************************************************************)
(* C4: in the body of a called script function, reading or assigning a    *)
(* name that no frame of the callee defines finds nothing, and what a      *)
(* lookup finds lies at or before the first call-boundary frame.           *)
(***************************************************************************)
StopsAtBoundary(x, name) ==
    /\ name \in DOMAIN blocks[x].variables
    /\ \A j \in 1..(x - 1) :
        ~blocks[j].is_split /\ name \notin DOMAIN blocks[j].variables
C4_CallIsolation ==
    LET cb == invocation(kont)
    IN  /\ (ReadPoint /\ cb.k = "CallBody" /\ ~DefinedInCallee(cb, ReadName)) =>
                get_local_var(blocks, ReadName) = Nothing
        /\ (AssignPoint /\ cb.k = "CallBody" /\ ~DefinedInCallee(cb, AssignName)) =>
                get_local_var_mut(blocks, AssignName) = 0
        /\ (ReadPoint /\ get_local_var(blocks, ReadName).opt) =>
                \E x \in 1..Len(blocks) :
                    /\ StopsAtBoundary(x, ReadName)
                    /\ get_local_var(blocks, ReadName).v = blocks[x].variables[ReadName]
        /\ (AssignPoint /\ get_local_var_mut(blocks, AssignName) # 0) =>
                StopsAtBoundary(get_local_var_mut(blocks, AssignName), AssignName)
\* A callee reads a name that only a frame of its caller defines.
C4_Witness ==
    /\ ReadPoint
    /\ invocation(kont).k = "CallBody"
    /\ ~DefinedInCallee(invocation(kont), ReadName)
    /\ DefinedInCaller(invocation(kont), ReadName)

(***************************************************************************)
(* C5: a local Defined in an open Block of the current invocation, or in   *)
(* the invocation's own frame, can be read and assigned at every later     *)
(* point of that invocation.                                               *)
(***************************************************************************)
C5_LocalsStayVisible ==
    /\ (ReadPoint /\ ReadName \in visible_defined(kont)) =>
            get_local_var(blocks, ReadName).opt
    /\ (AssignPoint /\ AssignName \in visible_defined(kont)) =>
            get_local_var_mut(blocks, AssignName) # 0

(***************************************************************************)
(* C6: a variable Defined inside a Block that has exited is found by no    *)
(* later read or assignment: what a lookup finds was Defined in a scope    *)
(* of the current invocation that is still open.                           *)
(***************************************************************************)
C6_BlockLocalsUnreachable ==
    /\ (ReadPoint /\ get_local_var(blocks, ReadName).opt) =>
            ReadName \in visible_defined(kont)
    /\ (AssignPoint /\ get_local_var_mut(blocks, AssignName) # 0) =>
            AssignName \in visible_defined(kont)

(***************************************************************************)
(* Vocabulary of the dispatch properties.                                  *)
(***************************************************************************)
\* The handlers invoked so far for the Call numbered c, in order.
RECURSIVE funcs_of(_, _)
funcs_of(l, c) ==
    IF l = <<>> THEN <<>>
    ELSE IF Head(l).call = c THEN <<Head(l).func>> \o funcs_of(Tail(l), c)
    ELSE funcs_of(Tail(l), c)

UpTo(n) == [i \in 1..n |-> i]

\* The arguments are evaluated and the name is about to be resolved.
DispatchPoint ==
    \/ Evaluating("Call") /\ ctrl.node.args = <<>>
    \/ Returning("CallArgs") /\ ctrl.res.ok /\ Head(kont).idx = Len(Head(kont).args)
DispatchName == IF ctrl.op = "eval" THEN ctrl.node.name ELSE Head(kont).name

\* Every registered handler answers NOTFOUND to the Call being probed.
AllNotFound ==
    \A i \in 1..Len(external_func) :
        call_handler(external_func[i], ctrl.name, ctrl.args_value,
                     blocks[1].accept, blocks[1].reject).status = "NOTFOUND"

(***************************************************************************)
(* C7: a Call whose name is in the function table runs the script function *)
(* and invokes no handler; otherwise the handlers are invoked in           *)
(* registration order, NOTFOUND passes to the next handler, and the first  *)
(* SUCCESS ends the dispatch with the handler's optional value.            *)
(***************************************************************************)
C7_Order ==
    /\ \A i \in 1..Len(log) : ~contains_key(functions, log[i].name)
    /\ \A i \in 1..Len(log) :
        IF log[i].func = 1
        THEN \A j \in 1..(i - 1) : log[j].call # log[i].call
        ELSE /\ i > 1
             /\ log[i - 1].call = log[i].call
             /\ log[i - 1].func = log[i].func - 1
             /\ log[i - 1].status # "SUCCESS"
    /\ ctrl.op = "probe" =>
        /\ ~contains_key(functions, ctrl.name)
        /\ funcs_of(log, ctrl.call) = UpTo(ctrl.i - 1)
C7_Step ==
    /\ (DispatchPoint /\ contains_key(functions, DispatchName)) =>
        /\ log' = log
        /\ ctrl'.op # "probe"
        /\ functions.v[DispatchName].body # <<>> =>
            /\ ctrl' = Eval(functions.v[DispatchName].body[1])
            /\ Head(kont').k = "CallBody"
    /\ (DispatchPoint /\ ~contains_key(functions, DispatchName)) =>
        ctrl'.op = "probe" /\ ctrl'.i = 1
    /\ Invoked =>
        /\ LastEntry.func = ctrl.i
        /\ LastEntry.status = "SUCCESS" => ctrl' = Ret(Ok(LastEntry.value))
        /\ LastEntry.status = "NOTFOUND" =>
            ctrl'.op = "probe" /\ ctrl'.i = ctrl.i + 1 /\ ctrl'.call = ctrl.call
C7_DispatchOrder == []C7_Order /\ [][C7_Step]_vars
\* The second handler has answered SUCCESS with a value after a NOTFOUND.
C7_Witness ==
    /\ Len(log) >= 2
    /\ log[Len(log)].call = log[Len(log) - 1].call
    /\ log[Len(log) - 1].status = "NOTFOUND"
    /\ log[Len(log)].status = "SUCCESS"
    /\ log[Len(log)].value.opt
    /\ ctrl = Ret(Ok(log[Len(log)].value))

(***************************************************************************)
(* C8: a handler answering ERROR stops the dispatch at once: the Call      *)
(* fails and no later handler is invoked.                                  *)
(***************************************************************************)
C8_Step == (Invoked /\ LastEntry.status = "ERROR") => (ctrl'.op = "ret" /\ ~ctrl'.res.ok)
C8_ErrorStopsDispatch == [][C8_Step]_vars

(***************************************************************************)
(* C9: a handler answering REJECTED stops the dispatch at once, the Call   *)
(* fails, and the failure is the error run returns to the host.            *)
(***************************************************************************)
C9_Step ==
    (Invoked /\ LastEntry.status = "REJECTED") =>
        ctrl' = Ret(Err("External function rejected."))
C9_Host ==
    (RunReturned /\ \E i \in 1..Len(log) : log[i].status = "REJECTED") =>
        result = Err("External function rejected.")
C9_RejectedReachesHost == []C9_Host /\ [][C9_Step]_vars

(***************************************************************************)
(* C10: a Call of a name outside the function table to which every         *)
(* registered handler answers NOTFOUND (none being registered included)    *)
(* fails with "Function not found" after each handler was invoked once.    *)
(***************************************************************************)
C10_Progress ==
    (ctrl.op = "probe" /\ AllNotFound) =>
        /\ ctrl.i <= Len(external_func) + 1
        /\ funcs_of(log, ctrl.call) = UpTo(ctrl.i - 1)
C10_Step ==
    (ctrl.op = "probe" /\ AllNotFound /\ ctrl'.op # "probe") =>
        /\ ctrl' = Ret(Err("Function not found"))
        /\ funcs_of(log', ctrl.call) = UpTo(Len(external_func))
C10_UndefinedFunction == []C10_Progress /\ [][C10_Step]_vars
\* Every handler of a non-empty registry has answered NOTFOUND to one Call.
C10_Witness ==
    /\ ctrl = Ret(Err("Function not found"))
    /\ Len(external_func) >= 1
    /\ Len(log) >= Len(external_func)
    /\ \A i \in 1..Len(external_func) :
        LET e == log[Len(log) - Len(external_func) + i]
        IN  e.func = i /\ e.status = "NOTFOUND" /\ e.call = log[Len(log)].call

(***************************************************************************)
(* C11: run on a function_name that is not in the function table returns   *)
(* Variable::None as a success; it does not fail or abort.                 *)
(***************************************************************************)
C11_UnknownFunctionIsUnit ==
    (runs > 0 /\ ~contains_key(functions, run_name)) =>
        (ctrl.op = "idle" /\ result = Ok(VNone))

(***************************************************************************)
(* C12: the first error raised anywhere during run aborts the run: every   *)
(* pending activation passes it on unchanged, no further node is           *)
(* evaluated, and run returns that error to the host.                      *)
(***************************************************************************)
C12_Step ==
    (ctrl.op = "ret" /\ ~ctrl.res.ok) =>
        \/ ctrl' = ctrl /\ kont' = Tail(kont) /\ log' = log
        \/ ctrl'.op = "idle" /\ result' = ctrl.res /\ log' = log
C12_FirstErrorAborts == [][C12_Step]_vars

(***************************************************************************)
(* C13: a condition is true exactly when it is Number(1); any other        *)
(* Number, any Text and an absent value are false.  If takes its           *)
(* then-branch exactly on a true condition and otherwise its else-branch   *)
(* when it has one; While and For enter the body exactly on a true one.    *)
(***************************************************************************)
ConditionTrue == ctrl.res.val.opt /\ IsTrue(ctrl.res.val.v)
C13_Step ==
    /\ (Returning("IfCond") /\ ctrl.res.ok) =>
        LET n == Head(kont).node
        IN  IF ConditionTrue THEN ctrl' = Eval(n.stmt)
            ELSE IF n.else_stmt.opt THEN ctrl' = Eval(n.else_stmt.v)
            ELSE ctrl' = Ret(Ok(Nothing))
    /\ ((Returning("WhileCond") \/ Returning("ForCond")) /\ ctrl.res.ok) =>
        IF ConditionTrue THEN ctrl' = Eval(Head(kont).node.stmt)
        ELSE ctrl' = Ret(Ok(Nothing))
C13_StrictTruthiness == [][C13_Step]_vars

(***************************************************************************)
(* C14: the first Return executed in a function invocation, however deeply *)
(* it is nested in Blocks and If branches, determines the invocation's     *)
(* result (the returned value, unwrapped), and nothing of the invocation   *)
(* runs after it: no assignment, Define or handler invocation.             *)
(* `if (1) return 10 else return 20` yields 10, with 0 it yields 20.       *)
(***************************************************************************)
ReturnInFlight ==
    /\ ctrl.op = "ret" /\ IsReturn(ctrl.res) /\ kont # <<>>
    /\ Head(kont).k \in {"BlockStmt", "IfBranch", "CallBody", "RunBody"}
ReturnedValue == ctrl.res.val.v.value
C14_Step ==
    ReturnInFlight =>
        /\ blocks' = blocks /\ log' = log /\ global_variables' = global_variables
        /\ CASE Head(kont).k \in {"BlockStmt", "IfBranch"} ->
                    ctrl' = ctrl /\ kont' = Tail(kont)
             [] Head(kont).k = "CallBody" ->
                    ctrl' = Ret(Ok(Some(ReturnedValue))) /\ kont' = Tail(kont)
             [] Head(kont).k = "RunBody" ->
                    ctrl' = Idle /\ result' = Ok(ReturnedValue)
IfOn(n) ==
    /\ contains_key(functions, "unit")
    /\ functions.v["main"].body[1].kind = "If"
    /\ functions.v["main"].body[1].condition.kind = "Number"
    /\ functions.v["main"].body[1].condition.value = n
C14_Examples ==
    (RunReturned /\ run_name = "main") =>
        /\ IfOn(1) => result = Ok(VNumber(10))
        /\ IfOn(0) => result = Ok(VNumber(20))
        /\ functions = ProgNested =>
            /\ result = Ok(VNumber(5))
            /\ log = <<>>
            /\ blocks[Len(blocks) - Len(entry_blocks)].variables["x"].value = VNumber(1)
C14_FirstReturnDecides == []C14_Examples /\ [][C14_Step]_vars
C14_Witness ==
    /\ RunReturned /\ run_name = "main" /\ functions = ProgNested
    /\ result = Ok(VNumber(5))

(***************************************************************************)
(* C15: a For loop evaluates init exactly once, then repeats: test the     *)
(* condition, run the body, run update.  For every n up to MaxLoop,        *)
(* `for (i=0; i<n; i=i+1) body`, whose body neither assigns i nor Returns, *)
(* ends after exactly n executions of its body (none when n = 0), with i   *)
(* equal to n afterwards.                                                  *)
(***************************************************************************)
RunFrame == blocks[Len(blocks) - Len(entry_blocks)]
Counter(name) == RunFrame.variables[name].value.value
InForProgram(n) == functions = ProgFor(n) /\ run_name \in {"main", "g"}
LoopStarted == {"i", "c"} \subseteq DOMAIN RunFrame.variables
ForKinds == {"ForInit", "ForCond", "ForBody", "ForUpdate"}
InLoop == \E j \in 1..Len(kont) : kont[j].k \in ForKinds
C15_Counts ==
    \A n \in 0..MaxLoop :
        InForProgram(n) =>
            /\ ctrl.op # "panic"
            /\ (ctrl.op = "ret" => ctrl.res.ok)
            /\ LoopStarted =>
                /\ Counter("c") <= n /\ Counter("i") <= n
                \* body and update alternate: c executions of the body so far
                /\ ctrl = Eval(CountBody) => Counter("c") = Counter("i")
                /\ Returning("ForUpdate") => Counter("i") = Counter("c")
                /\ (Returning("ForBody") \/ ctrl = Eval(Assign("i", Operator("ADD", Lvar("i"), Number(1)))))
                        => Counter("c") = Counter("i") + 1
            /\ RunReturned =>
                /\ result = Ok(VNumber(n))
                /\ Counter("c") = n /\ Counter("i") = n
InForRun == \E n \in 0..MaxLoop : InForProgram(n)
C15_InitOnce ==
    (InForRun /\ ctrl' = Eval(Assign("i", Number(0))) /\ ctrl' # ctrl) => Evaluating("For")
C15_Terminates == (InForRun /\ ctrl.op # "idle") ~> (InForRun /\ RunReturned)
C15_ForCounts == []C15_Counts /\ [][C15_InitOnce]_vars /\ C15_Terminates
C15_Witness ==
    /\ InForProgram(MaxLoop) /\ RunReturned
    /\ result = Ok(VNumber(MaxLoop)) /\ Counter("i") = MaxLoop

(***************************************************************************)
(* C16: after `Define x`, an assignment `x = v` made from the defining     *)
(* frame or from a nested Block of the same invocation gives x the value v *)
(* with initialized = true and changes no other variable of any frame, and *)
(* a following read of x in that invocation yields the stored value; in    *)
(* the function started by run and in any function invoked through a Call. *)
(***************************************************************************)
Stored(bs, x, name) ==
    /\ name \in DOMAIN bs[x].variables
    /\ \A y \in 1..x - 1 : name \notin DOMAIN bs[y].variables
Assigned(bs, x, name, v) ==
    [bs EXCEPT ![x].variables[name] =
        [@ EXCEPT !.value = v, !.status = [initialized |-> TRUE]]]
C16_Assign ==
    (AssignPoint /\ AssignName \in visible_defined(kont)) =>
        /\ ctrl' = Ret(Ok(Nothing))
        /\ \E x \in 1..Len(blocks) :
            /\ Stored(blocks, x, AssignName)
            /\ blocks' = Assigned(blocks, x, AssignName, ctrl.res.val.v)
C16_Read ==
    (ReadPoint /\ ReadName \in visible_defined(kont)) =>
        \E x \in 1..Len(blocks) :
            /\ Stored(blocks, x, ReadName)
            /\ ctrl' = Ret(Ok(Some(blocks[x].variables[ReadName].value)))
C16_RoundTrip == [][C16_Assign /\ C16_Read]_vars

(***************************************************************************)
(* C17: arithmetic never wraps and never yields a value on an invalid      *)
(* operation: for Numbers a and b, `a DIV 0` and `a SUB b` with a < b each *)
(* fail with an error result; otherwise DIV yields the truncated quotient, *)
(* SUB the difference and ADD the sum (5 ADD 3 = 8, 5 DIV 2 = 2).          *)
(***************************************************************************)
ArithPoint ==
    /\ Returning("OpRhs")
    /\ Head(kont).node.op \in {"ADD", "SUB", "DIV"}
    /\ Head(kont).lhs.opt /\ Head(kont).lhs.v.tag = "Number"
    /\ ctrl.res.ok /\ ctrl.res.val.opt /\ ctrl.res.val.v.tag = "Number"
C17_Step ==
    ArithPoint =>
        LET kind == Head(kont).node.op
            a == Head(kont).lhs.v.value
            b == ctrl.res.val.v.value
        IN  IF (kind = "DIV" /\ b = 0) \/ (kind = "SUB" /\ a < b)
            THEN ctrl'.op = "ret" /\ ~ctrl'.res.ok
            ELSE ctrl' = RetNumber(CASE kind = "ADD" -> a + b
                                     [] kind = "SUB" -> a - b
                                     [] kind = "DIV" -> a \div b)
C17_ArithmeticChecked == [][C17_Step]_vars

(***************************************************************************)
(* C18: every frame pushed while evaluating a Block, or while dispatching  *)
(* a Call to a script function, is matched by exactly one pop on every     *)
(* exit path (normal completion, a Return propagating out, an error): when *)
(* the Block or Call finishes, the frame stack has the frames it had when  *)
(* the Block or Call started.                                              *)
(***************************************************************************)
ScopeExit ==
    /\ Returning("BlockStmt") \/ Returning("CallBody")
    /\ kont' = Tail(kont) /\ ctrl'.op = "ret"
C18_Step == ScopeExit => Len(blocks') = Len(Head(kont).entry)
C18_PushMatchedByPop == [][C18_Step]_vars

(***************************************************************************)
(* C19: a Call to a script function pushes one call-boundary frame for the *)
(* whole invocation and every top-level statement of the body executes in  *)
(* that frame: the stack is not rebuilt between two statements, and a      *)
(* variable Defined by one top-level statement is resolvable and           *)
(* assignable by every later top-level statement of the invocation.        *)
(***************************************************************************)
TopLevelOfCallee == scope(kont).k = "CallBody"
C19_Resolvable ==
    /\ (ReadPoint /\ TopLevelOfCallee /\ ReadName \in scope(kont).defined) =>
            get_local_var(blocks, ReadName).opt
    /\ (AssignPoint /\ TopLevelOfCallee /\ AssignName \in scope(kont).defined) =>
            get_local_var_mut(blocks, AssignName) # 0
NextStatementOfCallee ==
    /\ Returning("CallBody") /\ ctrl'.op = "eval"
    /\ Len(kont') = Len(kont) /\ kont'[1].idx = Head(kont).idx + 1
C19_Step == NextStatementOfCallee => blocks' = blocks
C19_OneFramePerCall == []C19_Resolvable /\ [][C19_Step]_vars

(***************************************************************************)
(* C20: when the body of a While or For loop yields a Return, the loop     *)
(* stops at once, without running update, re-testing the condition or      *)
(* starting another iteration, and the Return propagates upward so that    *)
(* the enclosing function invocation returns that value.                   *)
(***************************************************************************)
ReturnFromLoopBody ==
    /\ Returning("WhileBody") \/ Returning("ForBody")
    /\ IsReturn(ctrl.res)
C20_Step ==
    ReturnFromLoopBody => (ctrl' = ctrl /\ kont' = Tail(kont) /\ blocks' = blocks)
C20_Examples ==
    (RunReturned /\ functions = ProgLoopReturn) =>
        /\ run_name = "main" => result = Ok(VNumber(1))
        /\ run_name = "g" => result = Ok(VNumber(0))
C20_ReturnStopsLoop == []C20_Examples /\ [][C20_Step]_vars

(***************************************************************************)
(* C21: the frame pushed for a Call to a script function is a call         *)
(* boundary with no variables and with the accept and reject sets of the   *)
(* caller's top frame at the instant of the call, after the arguments have *)
(* been evaluated; this holds for every statement of the callee's body, so *)
(* every handler invoked directly from the callee's body receives the pair *)
(* that was active in the caller when the call was made.                   *)
(***************************************************************************)
CalleeStatementStarts ==
    /\ ctrl'.op = "eval" /\ kont' # <<>> /\ kont'[1].k = "CallBody"
    /\ \/ Evaluating("Call") \/ Returning("CallArgs")
       \/ NextStatementOfCallee
C21_Step ==
    CalleeStatementStarts =>
        /\ blocks'[1].is_split /\ blocks'[1].variables = <<>>
        /\ Pair(blocks'[1]) = Pair(kont'[1].entry[1])
C21_Probe ==
    (ProbePoint /\ scope(kont).k = "CallBody") =>
        Pair(blocks[1]) = Pair(scope(kont).entry[1])
C21_CallFrame == []C21_Probe /\ [][C21_Step]_vars

(***************************************************************************)
(* C22: the frame stack is non-empty at every point while run evaluates a  *)
(* function body: no pop removes the frame pushed by the enclosing run     *)
(* (the pops since its start never exceed the pushes of Blocks and Calls   *)
(* since its start), so every access to the top frame finds a frame.       *)
(***************************************************************************)
PushedSinceRun == Len(blocks) - Len(entry_blocks)
C22_RunFrameStays ==
    runs > 0 =>
        /\ PushedSinceRun >= 1
        /\ blocks[PushedSinceRun].is_split
        /\ SubSeq(blocks, PushedSinceRun + 1, Len(blocks)) = entry_blocks
        /\ ctrl.op \in {"eval", "ret", "probe"} => blocks # <<>>
\* A Block of the function started by run has completed and popped its frame.
C22_Witness ==
    /\ ctrl.op = "eval" /\ kont # <<>> /\ Head(kont).k = "RunBody"
    /\ Head(kont).idx > 1 /\ Head(kont).body[Head(kont).idx - 1].kind = "Block"
    /\ PushedSinceRun = 1

(***************************************************************************)
(* C23: reading a variable, or assigning to one, whose name does not       *)
(* resolve within the current call (no frame up to and including the       *)
(* nearest call boundary defines it) fails with an error result, which run *)
(* returns to the host, and leaves the frame stack and all variables       *)
(* unchanged.                                                              *)
(***************************************************************************)
UnboundRead == ReadPoint /\ ~get_local_var(blocks, ReadName).opt
UnboundAssign == AssignPoint /\ get_local_var_mut(blocks, AssignName) = 0
C23_Step ==
    (UnboundRead \/ UnboundAssign) =>
        /\ ctrl'.op = "ret" /\ ~ctrl'.res.ok
        /\ blocks' = blocks
C23_UnboundVariableFails == [][C23_Step]_vars

(***************************************************************************)
(* C24: an arithmetic (ADD, SUB, MUL, DIV) or ordering (LT, LE) operation  *)
(* with an operand that is not a Number fails with an error result, which  *)
(* propagates to run's result, also when the failing operation is itself   *)
(* an operand of an enclosing binary operation, as in `(1 ADD "a") ADD 2`; *)
(* LT yields Number(1) exactly when lhs < rhs and LE exactly when          *)
(* lhs <= rhs, else Number(0).                                             *)
(***************************************************************************)
NumericKinds == {"ADD", "SUB", "MUL", "DIV", "LT", "LE"}
OperandsPoint ==
    /\ Returning("OpRhs") /\ Head(kont).node.op \in NumericKinds
    /\ Head(kont).lhs.opt /\ ctrl.res.ok /\ ctrl.res.val.opt
C24_Mismatch ==
    OperandsPoint =>
        LET kind == Head(kont).node.op
            lhs == Head(kont).lhs.v
            rhs == ctrl.res.val.v
        IN  IF lhs.tag # "Number" \/ rhs.tag # "Number"
            THEN ctrl'.op = "ret" /\ ~ctrl'.res.ok /\ kont' = Tail(kont)
            ELSE /\ kind = "LT" => ctrl' = RetNumber(IF lhs.value < rhs.value THEN 1 ELSE 0)
                 /\ kind = "LE" => ctrl' = RetNumber(IF lhs.value <= rhs.value THEN 1 ELSE 0)
FailedOperand ==
    /\ Returning("OpLhs") \/ Returning("OpRhs")
    /\ Head(kont).node.op \in NumericKinds
    /\ ~ctrl.res.ok
C24_Propagates ==
    FailedOperand => (ctrl'.op = "ret" /\ ~ctrl'.res.ok /\ kont' = Tail(kont))
C24_TypeMismatchFails == [][C24_Mismatch /\ C24_Propagates]_vars

(***************************************************************************)
(* C25: Define(name, type) inserts the variable into the top frame only    *)
(* and changes no other frame: Number(0) for "num", Text("") for "String", *)
(* with initialized = false; any other type name fails and leaves every    *)
(* frame unchanged; a Define of a name already in the top frame replaces   *)
(* it without error; a Define in a nested Block of a name an enclosing     *)
(* frame also defines shadows it: assignments in the Block change only the *)
(* inner variable and the enclosing one keeps its value after the Block    *)
(* exits normally.                                                         *)
(***************************************************************************)
KnownTypes == {"num", "String"}
DefaultOf(var_type) == IF var_type = "num" THEN VNumber(0) ELSE VText("")
C25_Step ==
    Evaluating("Define") =>
        LET name == ctrl.node.name
            var_type == ctrl.node.var_type
        IN  IF var_type \in KnownTypes
            THEN /\ ctrl' = Ret(Ok(Nothing))
                 /\ Len(blocks') = Len(blocks)
                 /\ \A i \in 2..Len(blocks) : blocks'[i] = blocks[i]
                 /\ Pair(blocks'[1]) = Pair(blocks[1])
                 /\ blocks'[1].is_split = blocks[1].is_split
                 /\ DOMAIN blocks'[1].variables = DOMAIN blocks[1].variables \cup {name}
                 /\ blocks'[1].variables[name] =
                        LocalVariable(name, DefaultOf(var_type), [initialized |-> FALSE])
                 /\ \A n \in DOMAIN blocks[1].variables \ {name} :
                        blocks'[1].variables[n] = blocks[1].variables[n]
            ELSE ctrl'.op = "ret" /\ ~ctrl'.res.ok /\ blocks' = blocks
InDefineProgram(f) == functions = ProgDefine /\ run_name = f
C25_Shadow ==
    /\ (InDefineProgram("main") /\ "x" \in DOMAIN RunFrame.variables
            /\ RunFrame.variables["x"].status.initialized) =>
                RunFrame.variables["x"].value = VNumber(1)
    /\ (InDefineProgram("main") /\ RunReturned) => result = Ok(VNumber(1))
    /\ (InDefineProgram("g") /\ RunReturned) => ~result.ok
C25_DefineTopFrameOnly == []C25_Shadow /\ [][C25_Step]_vars
\* The Block has Defined and assigned its own x and run has returned the outer one.
C25_Witness ==
    /\ InDefineProgram("main") /\ RunReturned /\ result = Ok(VNumber(1))

(***************************************************************************)
(* C26: EQ and NE are defined for any two values of any tags and never     *)
(* fail: EQ yields Number(1) exactly when both operands have the same tag  *)
(* and equal payloads and Number(0) otherwise (a Text compared with a      *)
(* Number is Number(0)), and NE yields the opposite of EQ for every pair.  *)
(***************************************************************************)
ValueOf(o) == IF o.opt THEN o.v ELSE VNone
SameValue(a, b) == a.tag = b.tag /\ (a.tag = "None" \/ a.value = b.value)
EqualityPoint ==
    /\ Returning("OpRhs") /\ Head(kont).node.op \in {"EQ", "NE"}
    /\ ctrl.res.ok
C26_Step ==
    EqualityPoint =>
        LET same == SameValue(ValueOf(Head(kont).lhs), ValueOf(ctrl.res.val))
        IN  ctrl' = RetNumber(IF (Head(kont).node.op = "EQ") = same THEN 1 ELSE 0)
C26_EqualityTotal == [][C26_Step]_vars

(***************************************************************************)
(* C27: for a Call, all arguments are evaluated left to right in the       *)
(* caller's current scope (they can read the caller's locals, and their    *)
(* side effects happen in argument order) before any call frame is pushed  *)
(* and before any handler is invoked; the handler receives the argument    *)
(* values in that order.                                                   *)
(***************************************************************************)
ArgumentsDone ==
    \/ Evaluating("Call") /\ ctrl.node.args = <<>>
    \/ Returning("CallArgs") /\ ctrl.res.ok /\ Head(kont).idx = Len(Head(kont).args)
Collected ==
    IF ctrl.res.val.opt THEN Append(Head(kont).args_value, ctrl.res.val.v)
    ELSE Head(kont).args_value
C27_Step ==
    /\ (Returning("CallArgs") /\ ctrl.res.ok) =>
        /\ Head(kont).idx < Len(Head(kont).args) =>
            /\ ctrl' = Eval(Head(kont).args[Head(kont).idx + 1])
            /\ kont'[1].k = "CallArgs" /\ kont'[1].idx = Head(kont).idx + 1
            /\ kont'[1].args_value = Collected
            /\ blocks' = blocks /\ log' = log
        /\ ctrl'.op = "probe" => (ctrl'.args_value = Collected /\ blocks' = blocks)
    /\ (ctrl.op # "probe" /\ ctrl'.op = "probe") => ArgumentsDone
    /\ ((Evaluating("Call") \/ Returning("CallArgs"))
            /\ kont' # <<>> /\ kont'[1].k = "CallBody") => ArgumentsDone
    /\ (Evaluating("Call") /\ ctrl.node.args # <<>>) =>
            (ctrl' = Eval(ctrl.node.args[1]) /\ blocks' = blocks /\ log' = log)
    /\ Invoked => (ctrl.op = "probe" /\ LastEntry.args = ctrl.args_value)
\* The calls of ProgArgs' main, in the order of their first probe.
IsValue(v, tag, payload) == v.tag = tag /\ v.value = payload
C27_Example ==
    (functions = ProgArgs /\ run_name = "main") =>
        /\ \A i, j \in 1..Len(log) : i <= j => log[i].call <= log[j].call
        /\ \A i \in 1..Len(log) :
            /\ log[i].call = 1 => (Len(log[i].args) = 1 /\ IsValue(log[i].args[1], "Number", 1))
            /\ log[i].call = 2 => (Len(log[i].args) = 1 /\ IsValue(log[i].args[1], "Text", "s"))
            /\ log[i].call = 3 =>
                /\ Len(log[i].args) >= 1 /\ IsValue(log[i].args[1], "Number", 4)
                /\ \E a, b \in 1..Len(log) : log[a].call = 1 /\ log[b].call = 2
C27_ArgumentsFirst == []C27_Example /\ [][C27_Step]_vars
\* The outer call of ProgArgs' main has been probed with three values.
C27_Witness ==
    /\ functions = ProgArgs /\ run_name = "main" /\ log # <<>>
    /\ log[Len(log)].call = 3 /\ Len(log[Len(log)].args) = 3
    /\ IsValue(log[Len(log)].args[1], "Number", 4)

(***************************************************************************)
(* C28: evaluation never modifies the program representation or the        *)
(* registry: after any sequence of runs, whatever their outcomes, the      *)
(* function table, the external function registry and the reserved         *)
(* global-variable list are what they were when the runtime was            *)
(* constructed (the list stays empty); only the frame stack changes.       *)
(***************************************************************************)
C28_Step ==
    /\ functions' = functions
    /\ external_func' = external_func
    /\ global_variables' = global_variables
C28_ProgramImmutable == [](global_variables = <<>>) /\ [][C28_Step]_vars
\* The last of the runs has failed after a Call and has left frames behind.
C28_Witness ==
    /\ RunReturned /\ runs = MaxRuns /\ ~result.ok /\ calls > 0
    /\ Len(blocks) > runs

(***************************************************************************)
(* C29: run(f) on a runtime that has already made earlier runs, successful *)
(* or failed, returns the result and makes the sequence of handler         *)
(* invocations (names, arguments, accept and reject sets, in order) that   *)
(* run(f) makes on the runtime as constructed: nothing an earlier run left *)
(* behind is observable in a later one.                                    *)
(***************************************************************************)
Reused == runs > 1 /\ entry_blocks # <<>>
C29_ReuseEquivalence ==
    (RunReturned /\ Reused /\ run_name = fresh.name) =>
        /\ result.ok = fresh.result.ok
        /\ result = fresh.result
        /\ log = fresh.log
\* A later run that found the frames of a failed run, one of them narrowed,
\* in front of the stack and that has called handlers.
C29_Witness ==
    /\ RunReturned /\ Reused /\ run_name = fresh.name
    /\ log # <<>>
    /\ Len(entry_blocks) > runs - 1
    /\ \E i \in DOMAIN entry_blocks : entry_blocks[i].accept # run_frame.accept

(***************************************************************************)
(* C30: in a program with no permission annotation on any Block, every     *)
(* frame ever on the stack has accept = [Administrator, StdIo] and an      *)
(* empty reject set, and so every handler invocation, at any Block or Call *)
(* depth and after any number of earlier calls and returns, receives       *)
(* exactly that pair.                                                      *)
(***************************************************************************)
RECURSIVE Annotated(_), AnyAnnotated(_)
Annotated(node) ==
    CASE node.kind = "Block" -> node.permission.opt \/ AnyAnnotated(node.stmts)
      [] node.kind = "Call" -> AnyAnnotated(node.args)
      [] node.kind = "Operator" -> Annotated(node.lhs) \/ Annotated(node.rhs)
      [] node.kind = "Return" -> Annotated(node.lhs)
      [] node.kind = "If" ->
            \/ Annotated(node.condition)
            \/ Annotated(node.stmt)
            \/ node.else_stmt.opt /\ Annotated(node.else_stmt.v)
      [] node.kind = "While" -> Annotated(node.condition) \/ Annotated(node.stmt)
      [] node.kind = "For" ->
            \/ node.init.opt /\ Annotated(node.init.v)
            \/ node.condition.opt /\ Annotated(node.condition.v)
            \/ node.update.opt /\ Annotated(node.update.v)
            \/ Annotated(node.stmt)
      [] node.kind = "Function" -> AnyAnnotated(node.body)
      [] OTHER -> FALSE
AnyAnnotated(nodes) == \E i \in DOMAIN nodes : Annotated(nodes[i])
NoAnnotation ==
    functions.opt => \A n \in DOMAIN functions.v : ~Annotated(functions.v[n])
DefaultPair(x) == x.accept = <<Administrator, StdIo>> /\ x.reject = <<>>
C30_DefaultPair ==
    NoAnnotation =>
        /\ \A i \in DOMAIN blocks : DefaultPair(blocks[i])
        /\ \A i \in DOMAIN log : DefaultPair(log[i])
\* A handler has been invoked from inside Blocks inside a called function,
\* in a run that found the frames of an earlier run on the stack.
C30_Witness ==
    /\ NoAnnotation /\ functions.opt
    /\ runs > 1 /\ Len(entry_blocks) > runs - 1
    /\ log # <<>>
    /\ \E j \in DOMAIN kont : kont[j].k = "CallBody"
    /\ \E j \in DOMAIN kont : kont[j].k = "BlockStmt"
    /\ ctrl.op = "ret" /\ Len(blocks) > Len(entry_blocks) + 3

=============================================================================
